---- MODULE Spec2Model ----
(***************************************************************************)
(* Model of the Tcl extension "performance": the command procedure         *)
(* Tcl_xor_cmd (src/generic/performance.c) run by a Tcl script that calls  *)
(* [xor data key] one or more times and keeps the results in variables.    *)
(*                                                                         *)
(* A Tcl value is a sequence of character codes; it is a byte array when   *)
(* every code is below 256.  A C buffer is a record [null, bytes].         *)
(***************************************************************************)
EXTENDS Integers, Sequences, FiniteSets, TLC

\* ---------------------------------------------------------------- bounds
MaxLen == 3
MaxArgs == 3

\* ------------------------------------------------------------ byte values
ByteVals == {0, 65, 255}
BinVals == {0, 255}
GarbageVals == {0, 255}

SeqsUpTo(S, n) == UNION {[1..k -> S] : k \in 0..n}

ByteSeqs == SeqsUpTo(ByteVals, MaxLen)
BinSeqs == SeqsUpTo(BinVals, MaxLen)
\* keys of the three-operand script: non-empty (the empty key is C3's case)
ShortKeys == SeqsUpTo(BinVals, MaxLen - 1) \ {<<>>}

\* Values of the documentation's examples.
HelloWorld == <<72, 101, 108, 108, 111, 32, 87, 111, 114, 108, 100>>
Secret == <<115, 101, 99, 114, 101, 116>>
TenA == [i \in 1..10 |-> 65]
KeyXY == <<88, 89>>
DocPairs == {<<HelloWorld, Secret>>, <<TenA, KeyXY>>}

\* Strings with a character outside 0..255: no byte array (Tcl 9).
WideVals == {<<256>>, <<65, 8364>>}

IsByteArray(v) == \A i \in 1..Len(v) : v[i] < 256

\* ------------------------------------------------------------- C helpers
RECURSIVE XorBits(_, _, _)
XorBits(a, b, k) ==
    IF k = 0 THEN 0
    ELSE ((a + b) % 2) + 2 * XorBits(a \div 2, b \div 2, k - 1)

RECURSIVE OrBits(_, _, _)
OrBits(a, b, k) ==
    IF k = 0 THEN 0
    ELSE (IF (a % 2) + (b % 2) > 0 THEN 1 ELSE 0) + 2 * OrBits(a \div 2, b \div 2, k - 1)

\* unsigned char | unsigned char   (the wrong operator)
ByteOr(a, b) == OrBits(a, b, 8)

\* unsigned char ^ unsigned char, stored to an unsigned char
ByteXor(a, b) == XorBits(a, b, 8)

NullBuf == [null |-> TRUE, bytes |-> <<>>]
Buf(bs) == [null |-> FALSE, bytes |-> bs]

\* Tcl_GetByteArrayFromObj(obj, &len): the possible (pointer, length) pairs.
\* A byte array yields its bytes.  Any other value is truncated to the low
\* 8 bits of each character by Tcl 8.6, while Tcl 9 returns NULL and leaves
\* the length variable unassigned.
GetByteArrayFromObj(v, major) ==
    IF IsByteArray(v)
    THEN {[buf |-> Buf(v), len |-> Len(v)]}
    ELSE IF major = 8
    THEN {[buf |-> Buf([i \in 1..Len(v) |-> v[i] % 256]), len |-> Len(v)]}
    ELSE {[buf |-> NullBuf, len |-> n] : n \in 0..MaxLen}

\* malloc(n): a fresh buffer of n indeterminate bytes; malloc(0) may return
\* NULL as well; when the allocator is exhausted malloc(n > 0) returns NULL.
\* mallocs and frees count the calls of malloc and free made by a call of the
\* command; heap counts the buffers allocated and not yet freed.
Uninit == -1
Malloc(n, exhausted) ==
    IF n = 0 THEN {NullBuf, Buf(<<>>)}
    ELSE IF exhausted THEN {NullBuf}
    ELSE {Buf([i \in 1..n |-> Uninit])}

\* --------------------------------------------------- Tcl_xor_cmd helpers
UsageMsg == "Invalid command count, use: xor <string> <salt>"

\* if (objc < 3): too many arguments pass
ArgcOk_AtLeast(objc) == objc >= 3

\* if (objc != 3): objv[0] is the command name
ArgcOk(objc) == objc = 3

\* salt[si++]; if (si > saltLen) si = 0;   (wraps one byte late)
NextSi_OffByOne(s, sl) == IF s + 1 > sl THEN 0 ELSE s + 1

\* salt[si]; the increment forgotten
NextSi_Stuck(s, sl) == 0

\* salt[si++]; if (si >= saltLen) si = 0;
NextSi(s, sl) == IF s + 1 >= sl THEN 0 ELSE s + 1

\* for (ti = 0; ti <= textLen; ti++)
LoopCond_Le(t, n) == t <= n

\* for (ti = 0; ti < textLen; ti++)
LoopCond(t, n) == t < n

\* buf[i] read in C: the values the read can yield (none through NULL)
ReadByte(buf, i) ==
    IF buf.null THEN {}
    ELSE IF i < Len(buf.bytes) THEN {buf.bytes[i + 1]}
    ELSE GarbageVals

\* buf[i] read in C: the read can end the process
ReadFaults(buf, i) == buf.null \/ i >= Len(buf.bytes)

\* text[ti] = text[ti] ^ salt[si++]: the XOR done in place, in the argument
Store_InPlace(t, r, i, v) ==
    [text |-> [t EXCEPT !.bytes[i + 1] = v], result |-> r]

\* result[ti] = ...: the store goes to the malloc'ed buffer; text is const
Store(t, r, i, v) ==
    [text |-> t, result |-> [r EXCEPT !.bytes[i + 1] = v]]

\* Tcl_NewByteArrayObj(result, textLen): a copy of the first textLen bytes
NewByteArrayObj(buf, n) == IF n = 0 THEN <<>> ELSE SubSeq(buf.bytes, 1, n)

\* [binary encode hex $bytes]: two lower-case hex digits per byte
HexDigits == <<"0", "1", "2", "3", "4", "5", "6", "7",
               "8", "9", "a", "b", "c", "d", "e", "f">>
HexEncode(bs) ==
    [j \in 1..(2 * Len(bs)) |->
        IF j % 2 = 1 THEN HexDigits[(bs[(j + 1) \div 2] \div 16) + 1]
        ELSE HexDigits[(bs[j \div 2] % 16) + 1]]

\* ------------------------------------------------------------- scripts
\* A script is a sequence of calls; a call lists the variables holding its
\* arguments, and its result is stored in a new variable.
SingleProg(n) == << [i \in 1..n |-> i] >>
RoundTripProg == << <<1, 2>>, <<3, 2>> >>
SwapProg == << <<1, 2>>, <<2, 1>> >>
AssocProg == << <<1, 2>>, <<4, 3>>, <<2, 3>>, <<1, 6>> >>
RepeatProg == << <<1, 2>>, <<3, 4>>, <<1, 2>> >>

\* The call made between the two identical calls of RepeatProg; the second
\* pair ends its loop with the key index in the middle of the key.
MidPairs == {<<<<255>>, <<0, 255>>>>, <<<<0, 255, 255>>, <<255, 0>>>>}

ArityVals == {<<>>, <<65>>}

Scripts ==
    {[prog |-> SingleProg(2), reg |-> <<a, b>>] :
        a \in ByteSeqs \cup WideVals, b \in ByteSeqs \cup WideVals}
    \cup {[prog |-> SingleProg(2), reg |-> p] : p \in DocPairs}
    \cup {[prog |-> SingleProg(Len(r)), reg |-> r] :
            r \in SeqsUpTo(ArityVals, MaxArgs) \ [1..2 -> ArityVals]}
    \cup {[prog |-> RoundTripProg, reg |-> <<d, k>>] :
            d \in ByteSeqs, k \in SeqsUpTo(ByteVals, MaxLen - 1)}
    \cup {[prog |-> RoundTripProg, reg |-> p] : p \in DocPairs}
    \cup {[prog |-> SwapProg, reg |-> <<a, b>>] : a \in BinSeqs, b \in BinSeqs}
    \cup {[prog |-> AssocProg, reg |-> <<a, b, c>>] :
            a \in BinSeqs, b \in ShortKeys, c \in ShortKeys}
    \cup {[prog |-> RepeatProg, reg |-> <<a, b, m[1], m[2]>>] :
            a \in BinSeqs, b \in BinSeqs, m \in MidPairs}

\* ---------------------------------------------------------------- state
VARIABLES
    prog, reg, ip,          \* the script, its variables, the next call
    exhausted,              \* the allocator has no memory left
    pc,                     \* position of the running call
    objv,                   \* argument values of the running call (objv[1..])
    text, textLen, salt, saltLen, result, si, ti,   \* locals of Tcl_xor_cmd
    interp, code,           \* interpreter result and the call's return code
    saltReads, xors, mallocs, frees,  \* what the running call did so far
    peer,                   \* a call of Tcl_xor_cmd running in a second thread
    heap                    \* number of malloc'ed buffers not yet freed

vars == <<prog, reg, ip, exhausted, pc, objv, text, textLen, salt, saltLen,
          result, si, ti, interp, code, saltReads, xors, mallocs, frees,
          peer, heap>>

script == <<prog, exhausted>>
locals == <<text, textLen, salt, saltLen, result, si, ti>>
counters == <<saltReads, xors, mallocs, frees>>

\* free(result) forgotten: the buffer stays allocated
Free_Leak(h, buf) == h

\* the allocated buffers after malloc returned buf, and after free(buf);
\* free(NULL) does nothing
Allocate(h, buf) == IF buf.null THEN h ELSE h + 1
Free(h, buf) == IF buf.null THEN h ELSE h - 1

\* the memory of a buffer after free: its bytes are indeterminate again
Released(buf) ==
    IF buf.null THEN buf ELSE Buf([i \in 1..Len(buf.bytes) |-> Uninit])

NoResult == [msg |-> "", bytes |-> <<>>]

\* The second thread's activation: its own interpreter, arguments and locals.
PeerAt(p, args) ==
    [pc |-> p, objv |-> args, text |-> NullBuf, textLen |-> 0,
     salt |-> NullBuf, saltLen |-> 0, result |-> NullBuf, si |-> 0, ti |-> 0,
     interp |-> NoResult, code |-> "none"]
NoPeer == PeerAt("idle", <<>>)

\* static Tcl_Size si, ti: one variable for all activations, so a store made
\* by the other thread's activation lands in this one's
StaticVar(mine, theirs) == theirs

\* Tcl_Size si = 0; Tcl_Size ti = 0; automatic variables, one per activation:
\* the value of this activation's variable after the other activation's store
AutoVar(mine, theirs) == mine

InitMain(allocStates) ==
    /\ \E s \in Scripts : prog = s.prog /\ reg = s.reg
    /\ ip = 1
    /\ exhausted \in allocStates
    /\ pc = "idle"
    /\ objv = <<>>
    /\ text = NullBuf /\ textLen = 0
    /\ salt = NullBuf /\ saltLen = 0
    /\ result = NullBuf
    /\ si = 0 /\ ti = 0
    /\ interp = NoResult
    /\ code = "none"
    /\ saltReads = 0 /\ xors = 0 /\ mallocs = 0 /\ frees = 0
    /\ heap = 0

\* One thread only: no second activation.
InitWith(allocStates) == InitMain(allocStates) /\ peer = NoPeer

Init == InitWith({FALSE})

\* The script evaluates [xor $v1 $v2 ...]: a new activation of Tcl_xor_cmd.
Invoke ==
    /\ pc = "idle"
    /\ ip <= Len(prog)
    /\ objv' = [i \in 1..Len(prog[ip]) |-> reg[prog[ip][i]]]
    /\ pc' = "entry"
    /\ text' = NullBuf /\ textLen' = 0
    /\ salt' = NullBuf /\ saltLen' = 0
    /\ result' = NullBuf
    /\ si' = 0 /\ ti' = 0
    /\ code' = "none"
    /\ saltReads' = 0 /\ xors' = 0 /\ mallocs' = 0 /\ frees' = 0
    /\ UNCHANGED <<prog, reg, ip, exhausted, interp, peer, heap>>

\* Tcl_ResetResult and the argument count check.
Entry ==
    /\ pc = "entry"
    /\ IF ArgcOk(Len(objv) + 1)
       THEN /\ interp' = NoResult
            /\ pc' = "setup"
            /\ code' = code
       ELSE /\ interp' = [msg |-> UsageMsg, bytes |-> <<>>]
            /\ pc' = "return"
            /\ code' = "TCL_ERROR"
    /\ UNCHANGED <<script, reg, ip, objv, locals, counters, peer, heap>>

\* The two Tcl_GetByteArrayFromObj calls, malloc, and si = ti = 0.
Setup ==
    /\ pc = "setup"
    /\ \E major \in {8, 9} :
         /\ \E t \in GetByteArrayFromObj(objv[1], major) :
                text' = t.buf /\ textLen' = t.len
         /\ \E s \in GetByteArrayFromObj(objv[2], major) :
                salt' = s.buf /\ saltLen' = s.len
    /\ result' \in Malloc(textLen', exhausted)
    /\ mallocs' = mallocs + 1
    /\ heap' = Allocate(heap, result')
    /\ si' = 0 /\ ti' = 0
    /\ pc' = "loop"
    /\ peer' = [peer EXCEPT !.si = AutoVar(peer.si, si'),
                            !.ti = AutoVar(peer.ti, ti')]
    /\ UNCHANGED <<script, reg, ip, objv, interp, code, saltReads, xors, frees>>

\* One iteration: result[ti] = text[ti] ^ salt[si++]; if (si >= saltLen) si = 0;
\* A read or write through NULL, or a write past the end of the result buffer,
\* ends the process.  A read past the end of a buffer yields whatever lies
\* there, or ends the process.
LoopStep ==
    /\ pc = "loop"
    /\ LoopCond(ti, textLen)
    /\ saltReads' = saltReads + 1
    /\ \/ /\ ~result.null /\ ti < Len(result.bytes)
          /\ \E d \in ReadByte(text, ti), k \in ReadByte(salt, si) :
                LET st == Store(text, result, ti, ByteXor(d, k))
                IN  text' = st.text /\ result' = st.result
          /\ si' = NextSi(si, saltLen)
          /\ ti' = ti + 1
          /\ xors' = xors + 1
          /\ pc' = "loop"
       \/ /\ \/ result.null \/ ti >= Len(result.bytes)
             \/ ReadFaults(text, ti) \/ ReadFaults(salt, si)
          /\ pc' = "crashed"
          /\ UNCHANGED <<text, result, si, ti, xors>>
    /\ peer' = [peer EXCEPT !.si = AutoVar(peer.si, si'),
                            !.ti = AutoVar(peer.ti, ti')]
    /\ UNCHANGED <<script, reg, ip, objv, textLen, salt, saltLen,
                   interp, code, mallocs, frees, heap>>

\* Tcl_SetObjResult(interp, Tcl_NewByteArrayObj(result, textLen)); free(result);
Fini ==
    /\ pc = "loop"
    /\ ~LoopCond(ti, textLen)
    /\ interp' = [msg |-> "", bytes |-> NewByteArrayObj(result, textLen)]
    /\ frees' = frees + 1
    /\ heap' = Free(heap, result)
    /\ result' = Released(result)
    /\ code' = "TCL_OK"
    /\ pc' = "return"
    /\ UNCHANGED <<script, reg, ip, objv, text, textLen, salt, saltLen, si, ti,
                   saltReads, xors, mallocs, peer>>

\* The script stores the result and goes on; an error ends the script.
Return ==
    /\ pc = "return"
    /\ IF code = "TCL_OK"
       THEN /\ reg' = Append(reg, interp.bytes)
            /\ ip' = ip + 1
            /\ pc' = IF ip + 1 > Len(prog) THEN "halt" ELSE "idle"
       ELSE /\ pc' = "halt"
            /\ UNCHANGED <<reg, ip>>
    /\ UNCHANGED <<script, objv, locals, interp, code, counters, peer, heap>>

Next == Invoke \/ Entry \/ Setup \/ LoopStep \/ Fini \/ Return

Spec == Init /\ [][Next]_vars

\* The same scripts, run with memory left or with the allocator exhausted.
InitOOM == InitWith(BOOLEAN)

SpecOOM == InitOOM /\ [][Next]_vars

\* ------------------------------------------------- the second thread
\* The same command procedure run by another thread on its own interpreter
\* and its own argument objects, its steps interleaved with the first's.
mainFrame == <<prog, reg, ip, exhausted, pc, objv, text, textLen, salt,
               saltLen, result, interp, code, saltReads, xors, mallocs, frees>>

\* Tcl_ResetResult and the argument count check.
PeerEntry ==
    /\ peer.pc = "entry"
    /\ peer' = IF ArgcOk(Len(peer.objv) + 1)
               THEN [peer EXCEPT !.interp = NoResult, !.pc = "setup"]
               ELSE [peer EXCEPT
                       !.interp = [msg |-> UsageMsg, bytes |-> <<>>],
                       !.pc = "return", !.code = "TCL_ERROR"]
    /\ UNCHANGED <<mainFrame, si, ti, heap>>

\* The two Tcl_GetByteArrayFromObj calls, malloc, and si = ti = 0.
PeerSetup ==
    /\ peer.pc = "setup"
    /\ \E major \in {8, 9} :
         \E t \in GetByteArrayFromObj(peer.objv[1], major),
            s \in GetByteArrayFromObj(peer.objv[2], major) :
           \E r \in Malloc(t.len, exhausted) :
              peer' = [peer EXCEPT
                        !.text = t.buf, !.textLen = t.len,
                        !.salt = s.buf, !.saltLen = s.len,
                        !.result = r, !.si = 0, !.ti = 0, !.pc = "loop"]
    /\ heap' = Allocate(heap, peer'.result)
    /\ si' = AutoVar(si, peer'.si)
    /\ ti' = AutoVar(ti, peer'.ti)
    /\ UNCHANGED mainFrame

\* One iteration: result[ti] = text[ti] ^ salt[si++]; if (si >= saltLen) si = 0;
PeerLoopStep ==
    /\ peer.pc = "loop"
    /\ LoopCond(peer.ti, peer.textLen)
    /\ \/ /\ ~peer.result.null /\ peer.ti < Len(peer.result.bytes)
          /\ \E d \in ReadByte(peer.text, peer.ti),
                k \in ReadByte(peer.salt, peer.si) :
                LET st == Store(peer.text, peer.result, peer.ti, ByteXor(d, k))
                IN  peer' = [peer EXCEPT
                              !.text = st.text, !.result = st.result,
                              !.si = NextSi(peer.si, peer.saltLen),
                              !.ti = peer.ti + 1]
       \/ /\ \/ peer.result.null \/ peer.ti >= Len(peer.result.bytes)
             \/ ReadFaults(peer.text, peer.ti)
             \/ ReadFaults(peer.salt, peer.si)
          /\ peer' = [peer EXCEPT !.pc = "crashed"]
    /\ si' = AutoVar(si, peer'.si)
    /\ ti' = AutoVar(ti, peer'.ti)
    /\ UNCHANGED <<mainFrame, heap>>

\* Tcl_SetObjResult(interp, Tcl_NewByteArrayObj(result, textLen)); free(result);
PeerFini ==
    /\ peer.pc = "loop"
    /\ ~LoopCond(peer.ti, peer.textLen)
    /\ peer' = [peer EXCEPT
                 !.interp = [msg |-> "",
                             bytes |-> NewByteArrayObj(peer.result,
                                                       peer.textLen)],
                 !.result = Released(peer.result),
                 !.code = "TCL_OK", !.pc = "return"]
    /\ heap' = Free(heap, peer.result)
    /\ UNCHANGED <<mainFrame, si, ti>>

\* Two threads, each calling xor once on byte arrays of its own; every call
\* has a non-empty key or empty data.
ConcPairs ==
    {p \in BinSeqs \X BinSeqs : Len(p[2]) >= 1 \/ Len(p[1]) = 0}

InitConc ==
    /\ InitMain({FALSE})
    /\ prog = SingleProg(2)
    /\ reg \in ConcPairs
    /\ \E m \in MidPairs : peer = PeerAt("entry", m)

NextConc ==
    Next \/ PeerEntry \/ PeerSetup \/ PeerLoopStep \/ PeerFini

SpecConc == InitConc /\ [][NextConc]_vars

\* ================================================================ claims
\* The call in progress: its two arguments as the command sees them.
data == objv[1]
key == objv[2]
TwoByteArgs == Len(objv) = 2 /\ IsByteArray(objv[1]) /\ IsByteArray(objv[2])
Returned == pc = "return"

\* Bit k of a byte, and exclusive-or stated bit by bit.
Bit(x, k) == (x \div (2 ^ k)) % 2
IsXorOf(r, a, b) ==
    /\ r \in 0..255
    /\ \A k \in 0..7 : (Bit(r, k) = 1) <=> (Bit(a, k) # Bit(b, k))

\* C1: a call with a data byte sequence of length N >= 0 and a key of length
\* K >= 1 succeeds and returns exactly N bytes, byte i being
\* data[i] XOR key[i mod K], whatever K is (also K > N).
C1_XorContract ==
    (TwoByteArgs /\ Len(key) >= 1) =>
        /\ pc # "crashed"
        /\ Returned =>
            /\ code = "TCL_OK"
            /\ Len(interp.bytes) = Len(data)
            /\ \A i \in 0..(Len(data) - 1) :
                 IsXorOf(interp.bytes[i + 1], data[i + 1],
                         key[(i % Len(key)) + 1])

C1_Witness ==
    /\ Returned /\ TwoByteArgs /\ code = "TCL_OK"
    /\ Len(data) >= 2 /\ Len(key) > Len(data)
    /\ interp.bytes # data

\* C3: a call with a zero-length key and non-empty data fails with an error,
\* returns no result bytes and reads no key byte.
C3_InvalidKey ==
    (TwoByteArgs /\ Len(key) = 0 /\ Len(data) > 0) =>
        /\ saltReads = 0
        /\ pc # "crashed"
        /\ Returned => (code = "TCL_ERROR" /\ interp.bytes = <<>>)

\* C4: a call with any number of arguments other than two fails with the
\* usage message, and allocates nothing and computes nothing before failing.
C4_UsageError ==
    (pc \notin {"idle", "entry"} /\ Len(objv) # 2) =>
        /\ pc \in {"return", "halt"}
        /\ code = "TCL_ERROR"
        /\ interp.msg = "Invalid command count, use: xor <string> <salt>"
        /\ interp.bytes = <<>>
        /\ mallocs = 0 /\ xors = 0 /\ saltReads = 0
        /\ result = NullBuf

C4_Witness ==
    /\ Returned /\ Len(objv) = 3 /\ code = "TCL_ERROR"

\* C5: with empty data the call succeeds and returns the empty byte sequence
\* for every key, the zero-length key included, and reads no key byte.
C5_EmptyData ==
    (TwoByteArgs /\ Len(data) = 0) =>
        /\ pc # "crashed"
        /\ saltReads = 0
        /\ Returned => (code = "TCL_OK" /\ interp.bytes = <<>>)

C5_Witness ==
    /\ Returned /\ TwoByteArgs /\ code = "TCL_OK"
    /\ Len(data) = 0 /\ Len(key) = 0

\* A script that ran to its end, every call having returned TCL_OK.
Halted(p) == pc = "halt" /\ prog = p /\ code = "TCL_OK"

\* C2: for every data byte sequence (zero bytes and 0xFF included) and every
\* non-empty key, xor(xor(data, key), key) is data, byte for byte.
C2_Involution ==
    (prog = RoundTripProg /\ Len(reg[2]) >= 1) =>
        /\ pc # "crashed"
        /\ pc = "halt" => (Len(reg) = 4 /\ reg[4] = reg[1])

C2_Witness ==
    /\ Halted(RoundTripProg)
    /\ Len(reg[2]) >= 1
    /\ \E i, j \in 1..Len(reg[1]) : reg[1][i] = 0 /\ reg[1][j] = 255 /\ i < j
    /\ reg[3] # reg[1]
    /\ reg[4] = reg[1]

\* C6 as documented: xor of "Hello World" with "secret" has the hex encoding
\* 3f0a0d1900584c1a0306, and xor of that with "secret" is "Hello World".
DocumentedHex == <<"3", "f", "0", "a", "0", "d", "1", "9", "0", "0",
                   "5", "8", "4", "c", "1", "a", "0", "3", "0", "6">>
ActualHex == <<"3", "b", "0", "0", "0", "f", "1", "e", "0", "a", "5", "4",
               "2", "4", "0", "a", "1", "1", "1", "e", "0", "1">>
C9_InvalidType ==
    (Len(objv) = 2 /\ (~IsByteArray(objv[1]) \/ ~IsByteArray(objv[2]))) =>
        /\ pc # "crashed"
        /\ Returned => (code = "TCL_ERROR" /\ interp.bytes = <<>>)

C11_NoCrossCallState ==
    /\ (pc = "loop" /\ ti = 0) => si = 0
    /\ prog = RepeatProg =>
        /\ (pc = "crashed" => ip = 1)
        /\ (pc = "halt" => (Len(reg) = 7 /\ reg[7] = reg[5]))

\* C12: a call leaves its inputs unchanged: from the moment the arguments are
\* fetched until the call has returned, with a result or with an error, the
\* bytes and the lengths of the data and key arguments are those passed in.
C12_InputsUnchanged ==
    /\ pc \in {"entry", "setup", "loop", "return"} =>
          objv = [i \in 1..Len(prog[ip]) |-> reg[prog[ip][i]]]
    /\ (pc \in {"loop", "return"} /\ TwoByteArgs) =>
          /\ text = Buf(data) /\ textLen = Len(data)
          /\ salt = Buf(key) /\ saltLen = Len(key)

C12_Witness ==
    /\ Returned /\ TwoByteArgs /\ code = "TCL_OK"
    /\ Len(data) >= 2 /\ Len(key) >= 1
    /\ interp.bytes # data
    /\ text = Buf(data)

\* The bytes a call returns for byte arrays d and k, k non-empty or d empty.
IsXorResult(bs, d, k) ==
    /\ Len(bs) = Len(d)
    /\ \A i \in 0..(Len(d) - 1) :
         IsXorOf(bs[i + 1], d[i + 1], k[(i % Len(k)) + 1])

\* C13: two calls on independent inputs run in two threads with their steps
\* interleaved in any order and without locking: each call returns exactly
\* the result it returns when run alone, and neither faults.
C13_Reentrant ==
    /\ pc # "crashed" /\ peer.pc # "crashed"
    /\ Returned => (code = "TCL_OK" /\ IsXorResult(interp.bytes, data, key))
    /\ peer.pc = "return" =>
          /\ peer.code = "TCL_OK"
          /\ IsXorResult(peer.interp.bytes, peer.objv[1], peer.objv[2])

\* Both calls are in the middle of their loops, at different key positions.
C13_Witness ==
    /\ pc = "loop" /\ peer.pc = "loop"
    /\ ti >= 1 /\ ti < textLen
    /\ peer.ti >= 1 /\ peer.ti < peer.textLen
    /\ ti # peer.ti /\ si # peer.si

\* C14: a call that passes the argument-count check makes exactly one
\* allocation, copies the buffer's contents into the returned value before
\* releasing it, and releases it exactly once before it returns; the
\* argument-count error path allocates nothing; after any sequence of calls
\* no working buffer remains allocated.
C14_BufferLifecycle ==
    /\ pc \in {"idle", "entry", "setup", "return", "halt"} => heap = 0
    /\ pc = "loop" => (mallocs = 1 /\ frees = 0 /\ heap = Allocate(0, result))
    /\ (Returned /\ code = "TCL_OK") =>
          /\ mallocs = 1 /\ frees = 1
          /\ Len(interp.bytes) = textLen
          /\ \A i \in 1..textLen : interp.bytes[i] \in 0..255
          /\ result = Released(result)
    /\ (pc \in {"return", "halt"} /\ code = "TCL_ERROR") =>
          (mallocs = 0 /\ frees = 0)
    /\ frees <= mallocs /\ mallocs <= 1

C14_Witness ==
    /\ Halted(AssocProg)
    /\ Len(reg) = 7 /\ Len(reg[7]) >= 2
    /\ mallocs = 1 /\ frees = 1 /\ heap = 0

\* C15: a data byte is left unchanged exactly where the key byte is zero: for
\* a key of length K >= 1 and every i < N, result[i] = data[i] if and only if
\* key[i mod K] = 0; so an all-zero key returns the data itself.
C15_ZeroKeyByte ==
    (Returned /\ TwoByteArgs /\ Len(key) >= 1) =>
        /\ code = "TCL_OK"
        /\ Len(interp.bytes) = Len(data)
        /\ \A i \in 0..(Len(data) - 1) :
             (interp.bytes[i + 1] = data[i + 1])
                <=> (key[(i % Len(key)) + 1] = 0)
        /\ (\A j \in 1..Len(key) : key[j] = 0) => interp.bytes = data

C15_Witness ==
    /\ Returned /\ TwoByteArgs /\ code = "TCL_OK"
    /\ Len(key) >= 2 /\ Len(data) > Len(key)
    /\ key[1] = 0 /\ key[2] # 0
    /\ interp.bytes[1] = data[1] /\ interp.bytes[2] # data[2]
    /\ data[1] # 0

\* C16: in the loop the key index is a running counter: for a key of length
\* K >= 1, when the key byte is read in iteration ti the index si is
\* ti mod K with 0 <= si < K, inside the key, and the data read and the result
\* write are at index ti with 0 <= ti < N, inside their buffers.
C16_RunningIndex ==
    (pc = "loop" /\ TwoByteArgs /\ Len(key) >= 1) =>
        /\ ti >= 0 /\ ti <= textLen
        /\ saltReads = ti
        /\ ti < textLen =>
            /\ si = ti % saltLen
            /\ si >= 0 /\ si < saltLen
            /\ ~salt.null /\ si < Len(salt.bytes)
            /\ ~text.null /\ ti < Len(text.bytes)
            /\ ~result.null /\ ti < Len(result.bytes)

C16_Witness ==
    /\ pc = "loop" /\ TwoByteArgs
    /\ saltLen >= 2 /\ ti > saltLen /\ ti < textLen
    /\ si = 1

\* C17: when allocating the result buffer fails for non-empty data, the call
\* fails: it stores no byte through the NULL buffer and returns no success.
C17_AllocFailure ==
    (exhausted /\ TwoByteArgs /\ Len(data) > 0) =>
        /\ ~(pc = "crashed" /\ result.null)
        /\ xors = 0
        /\ Returned => code = "TCL_ERROR"

====
